---- MODULE Spec2Model ----
(***************************************************************************)
(* Model of the college monitoring dashboard (src/app.py): the cached      *)
(* loader load_data, its normalization steps, calculate_kpis, the          *)
(* top-reasons aggregation of create_charts and the search filter of main. *)
(* Text values are TLA+ strings read character by character with Len and   *)
(* SubSeq; a DataFrame is a record [columns, rows], each row a sequence of *)
(* cells aligned with the columns.                                         *)
(***************************************************************************)
EXTENDS Integers, Sequences, FiniteSets, TLC

VARIABLES
  now,        \* the clock the cache reads, in seconds
  ticks,      \* how many times the clock has advanced
  source,     \* per remote locator, what a fetch of it yields at present
  cache,      \* the st.cache_data store of load_data: locator -> entry
  lastLoad,   \* what the last call of load_data did and found in the cache
  page,       \* what the last run of main produced
  normArg,    \* argument of the normalization step taken on its own
  normRet,    \* its result
  filterArg,  \* argument of the search filter taken on its own
  filterRet,  \* its result
  topArg,     \* argument of the top-reasons aggregation taken on its own
  topRet      \* its result

vars == << now, ticks, source, cache, lastLoad, page,
           normArg, normRet, filterArg, filterRet, topArg, topRet >>

(***************************************************************************)
(* Strings: str.strip, str.lower, substring and regular-expression search. *)
(***************************************************************************)
CharAt(s, i) == SubSeq(s, i, i)

IsSpace(c) == c \in {" ", "\t"}

RECURSIVE LStripFrom(_, _)
LStripFrom(s, i) ==
  IF i > Len(s) THEN ""
  ELSE IF IsSpace(CharAt(s, i)) THEN LStripFrom(s, i + 1)
  ELSE SubSeq(s, i, Len(s))

RECURSIVE RStripTo(_, _)
RStripTo(s, j) ==
  IF j < 1 THEN ""
  ELSE IF IsSpace(CharAt(s, j)) THEN RStripTo(s, j - 1)
  ELSE SubSeq(s, 1, j)

\* str.strip(): leading and trailing whitespace removed.
Strip(s) == LET l == LStripFrom(s, 1) IN RStripTo(l, Len(l))

UpperLetters ==
  << "A", "B", "C", "D", "E", "F", "G", "H", "I", "J", "K", "L", "M",
     "N", "O", "P", "Q", "R", "S", "T", "U", "V", "W", "X", "Y", "Z" >>

LowerLetters ==
  << "a", "b", "c", "d", "e", "f", "g", "h", "i", "j", "k", "l", "m",
     "n", "o", "p", "q", "r", "s", "t", "u", "v", "w", "x", "y", "z" >>

LowerChar(c) ==
  IF \E i \in 1..26 : UpperLetters[i] = c
  THEN LowerLetters[CHOOSE i \in 1..26 : UpperLetters[i] = c]
  ELSE c

RECURSIVE LowerFrom(_, _)
LowerFrom(s, i) ==
  IF i > Len(s) THEN "" ELSE LowerChar(CharAt(s, i)) \o LowerFrom(s, i + 1)

\* str.lower()
Lower(s) == LowerFrom(s, 1)

\* re.compile(pat) raises re.error: a parenthesis that is never closed or
\* never opened.  (The patterns modelled are made of literal characters,
\* "." and parentheses.)
RECURSIVE ParenDepth(_, _, _)
ParenDepth(pat, i, d) ==
  IF d < 0 THEN d
  ELSE IF i > Len(pat) THEN d
  ELSE IF CharAt(pat, i) = "(" THEN ParenDepth(pat, i + 1, d + 1)
  ELSE IF CharAt(pat, i) = ")" THEN ParenDepth(pat, i + 1, d - 1)
  ELSE ParenDepth(pat, i + 1, d)

RegexError(pat) == ParenDepth(pat, 1, 0) # 0

\* The pattern matches s at position i: "." matches any character, every
\* other character matches itself.
RegexMatchAt(pat, s, i) ==
  \A k \in 1..Len(pat) :
    CharAt(pat, k) = "." \/ CharAt(pat, k) = CharAt(s, i + k - 1)

\* re.search(pat, s) finds a match somewhere in s.
RegexSearch(pat, s) ==
  \E i \in 1..(Len(s) - Len(pat) + 1) : RegexMatchAt(pat, s, i)

\* Series.str.contains(pat, case=False) for a pattern of letters only, as
\* calculate_kpis uses it: the search ignores case.
ContainsNoCase(s, pat) == RegexSearch(Lower(pat), Lower(s))

(***************************************************************************)
(* Cells and tables.                                                       *)
(***************************************************************************)
StrCell(s) == [t |-> "str", s |-> s, n |-> 0]

IntCell(n) == [t |-> "int", s |-> "", n |-> n]

\* A missing value (NaN).
NaN == [t |-> "nan", s |-> "", n |-> 0]

Digits == << "0", "1", "2", "3", "4", "5", "6", "7", "8", "9" >>

IsDigit(c) == \E d \in 1..10 : Digits[d] = c

DigitVal(c) == (CHOOSE d \in 1..10 : Digits[d] = c) - 1

RECURSIVE IntToStrPos(_)
IntToStrPos(n) ==
  IF n < 10 THEN Digits[n + 1] ELSE IntToStrPos(n \div 10) \o Digits[(n % 10) + 1]

\* str(n) of an integer
IntToStr(n) == IF n < 0 THEN "-" \o IntToStrPos(0 - n) ELSE IntToStrPos(n)

\* str(x) of a cell, as Series.astype(str) gives it: NaN becomes "nan".
CellStr(c) ==
  CASE c.t = "str" -> c.s
    [] c.t = "int" -> IntToStr(c.n)
    [] OTHER -> "nan"

\* pd.DataFrame(): no columns, no rows.
EmptyDF == [columns |-> << >>, rows |-> << >>]

\* DataFrame.empty: some axis has length 0.
IsEmpty(df) == Len(df.columns) = 0 \/ Len(df.rows) = 0

ColIdx(cols, name) == CHOOSE i \in 1..Len(cols) : cols[i] = name

HasCol(cols, name) == \E i \in 1..Len(cols) : cols[i] = name

\* df[name] as the sequence of its cells.
Col(df, name) ==
  [r \in 1..Len(df.rows) |-> df.rows[r][ColIdx(df.columns, name)]]

(***************************************************************************)
(* The built-in sample data, line by line.                                 *)
(***************************************************************************)
MOCK_CSV_DATA ==
  << "",
     "District,College,College Gender,College Type,Category,Action Taken for the Month,Action,Name,Designation,Scale,Salary Deducted,Reason,Action By,Remarks,Action for Month",
     "Bannu,\"01. Govt Postgraduate College, Bannu\",Male,General,Employee,October,Explanation,Asmat ullah,Naib Qasid,3,12000,Habitual Absentiesm,Principal,,October",
     "Bannu,\"01. Govt Postgraduate College, Bannu\",Male,General,Employee,October,Explanation,Ayaz Ghori,Mali,3,10000,Habitual Absentiesm,Principal,,October",
     "Bannu,\"01. Govt Postgraduate College, Bannu\",Male,General,Employee,October,Explanation,Mohib ur Rehman,Naib Qasid,3,0,Proxy Attendance,Principal,,October",
     "Bannu,\"01. Govt Postgraduate College, Bannu\",Male,General,Employee,October,Explanation,Zohaib Khan,Lecturer,17,0,Proxy Attendance,Principal,,October",
     "Bannu,\"02. Govt Degree College No. 2, Bannu\",Male,General,Employee,October,Warning,Faqir Khan Assoc Prof,Mali,3,0,Habitual Absentiesm,Principal,,October",
     "Bannu,\"02. Govt Degree College No. 2, Bannu\",Male,General,Employee,October,Warning,Shams ud Din,Naib Qasid,3,0,Habitual Absentiesm,Principal,,October",
     "Bannu,\"02. Govt Degree College No. 2, Bannu\",Male,General,Employee,October,Warning,Saad Ullah Assoc Prof,Lecturer,17,0,Proxy Attendance,Principal,,October",
     "Bannu,\"02. Govt Degree College No. 2, Bannu\",Male,General,Employee,October,Warning,Nazir Ahmad Shah,Naib Qasid,3,0,Proxy Attendance,Principal,,October",
     "Bannu,\"02. Govt Degree College No. 2, Bannu\",Male,General,Employee,October,Warning,Hazrat Ali Khan,Mali,3,0,Habitual Absentiesm,Principal,,October",
     "Bannu,\"09. Govt Degree College, Kakki, Bannu\",Male,General,Employee,October,Warning,Farid Zia A/P English,Lecturer,17,0,Habitual Absentiesm,Principal,,October",
     "NWTD,\"18. Govt Girls Degree College, Miran Shah, NWTD\",Female,General,Employee,October,Inquiry,Safi Ullah,Naib Qasid,3,0,Habitual Absentiesm,Principal,,October",
     "NWTD,\"18. Govt Girls Degree College, Miran Shah, NWTD\",Female,General,Employee,October,Inquiry,Usra Shahid Lab attendent,Mali,3,0,Proxy Attendance,Principal,,October",
     "D.I. Khan,\"28. Govt Degree College, Paniala, D.I. Khan\",Male,General,Employee,October,Warning,Muhammad Farasat Ullah,Naib Qasid,3,0,Proxy Attendance,Principal,,October",
     "Kohat,\"61. Govt Postgraduate College, Kohat\",Male,General,Employee,October,Warning,Sadiq Noor,Naib Qasid,3,0,Habitual Absentiesm,Principal,,October",
     "Lakki Marwat,\"85. Govt Degree College, Serai Naurang, Lakki Marwat\",Male,General,Employee,October,Warning,Attiq Ullah Shah,Lecturer,17,0,Habitual Absentiesm,Principal,,October" >>

(***************************************************************************)
(* pd.read_csv                                                             *)
(***************************************************************************)
\* A field without its quoting: the double quotes that enclose text are
\* dropped, and a doubled quote inside quoted text is one quote character.
RECURSIVE UnquoteFrom(_, _, _)
UnquoteFrom(raw, i, inQuote) ==
  IF i > Len(raw) THEN ""
  ELSE LET c == CharAt(raw, i) IN
    IF c # "\"" THEN c \o UnquoteFrom(raw, i + 1, inQuote)
    ELSE IF inQuote /\ i < Len(raw) /\ CharAt(raw, i + 1) = "\""
    THEN "\"" \o UnquoteFrom(raw, i + 2, TRUE)
    ELSE UnquoteFrom(raw, i + 1, ~inQuote)

Unquote(raw) == UnquoteFrom(raw, 1, FALSE)

\* Position i of the line stands between double quotes: an odd number of
\* quote characters precede it.
InQuotes(line, i) ==
  Cardinality({j \in 1..(i - 1) : CharAt(line, j) = "\""}) % 2 = 1

\* The commas that end a field: those not between double quotes.
Separators(line) ==
  {i \in 1..Len(line) : CharAt(line, i) = "," /\ ~InQuotes(line, i)}

\* One line split into its fields.
SplitCsv(line) ==
  LET seps   == Separators(line)
      nth(k) == IF k = 0 THEN 0
                ELSE IF k > Cardinality(seps) THEN Len(line) + 1
                ELSE CHOOSE i \in seps : Cardinality({j \in seps : j < i}) = k - 1
  IN [k \in 1..(Cardinality(seps) + 1) |->
        Unquote(SubSeq(line, nth(k - 1) + 1, nth(k) - 1))]

\* Field texts read_csv takes for a missing value.
NA_VALUES ==
  { "", "#N/A", "N/A", "NA", "NULL", "NaN", "None", "n/a", "nan", "null" }

\* A field as a cell: a missing-value text is NaN, any other text is kept.
\* (read_csv also turns a column of numbers into numbers; the only numeric
\* column the inputs of this model hold is the salary, which pd.to_numeric
\* parses below with the same result.)
ParseCell(text) == IF text \in NA_VALUES THEN NaN ELSE StrCell(text)

\* A data line as a row of ncols cells; a short line is padded with NaN.
ParseRow(line, ncols) ==
  LET f == SplitCsv(line) IN
  [c \in 1..ncols |-> IF c <= Len(f) THEN ParseCell(f[c]) ELSE NaN]

\* pd.read_csv(text): blank lines are skipped, the first line left is the
\* header, the others are the rows.  No line at all is an EmptyDataError; a
\* data line with more fields than the header is a ParserError.  (A first
\* data line longer than the header, which read_csv reads as index columns,
\* is not among the inputs of this model.)
ReadCsv(lines) ==
  LET kept == SelectSeq(lines, LAMBDA l : l # "") IN
  IF Len(kept) = 0
  THEN [raised |-> TRUE, exc |-> "No columns to parse from file", df |-> EmptyDF]
  ELSE LET header == SplitCsv(kept[1])
           data   == Tail(kept)
       IN IF \E k \in 1..Len(data) : Len(SplitCsv(data[k])) > Len(header)
          THEN [raised |-> TRUE, exc |-> "Error tokenizing data",
                df |-> EmptyDF]
          ELSE [raised |-> FALSE, exc |-> "",
                df |-> [columns |-> header,
                        rows |-> [k \in 1..Len(data) |->
                                    ParseRow(data[k], Len(header))]]]

(***************************************************************************)
(* The cleaning steps of load_data.                                        *)
(***************************************************************************)
\* df.columns = df.columns.str.strip()
StripColumns(df) ==
  [df EXCEPT !.columns = [i \in 1..Len(df.columns) |-> Strip(df.columns[i])]]

RenameOne(c) ==
  CASE c = "College Gender"  -> "Gender"
    [] c = "College Type"    -> "Type"
    [] c = "Salary Deducted" -> "Salary"
    [] OTHER                 -> c

\* df.rename(columns={...})
RenameColumns(df) ==
  [df EXCEPT !.columns = [i \in 1..Len(df.columns) |-> RenameOne(df.columns[i])]]

COLUMNS_TO_KEEP ==
  << "District", "College", "Gender", "Type", "Category", "Action", "Name",
     "Designation", "Salary", "Reason" >>

HasDuplicates(cols) ==
  \E i, j \in 1..Len(cols) : i # j /\ cols[i] = cols[j]

\* df.reindex(columns=COLUMNS_TO_KEEP, fill_value=''): the columns kept, in
\* this order; a column the table lacks is filled with ''.  Reindexing an
\* axis that holds a label twice raises ValueError.
Reindex(df) ==
  IF HasDuplicates(df.columns)
  THEN [raised |-> TRUE,
        exc |-> "cannot reindex on an axis with duplicate labels",
        df |-> EmptyDF]
  ELSE [raised |-> FALSE, exc |-> "",
        df |-> [columns |-> COLUMNS_TO_KEEP,
                rows |-> [r \in 1..Len(df.rows) |->
                  [c \in 1..Len(COLUMNS_TO_KEEP) |->
                     IF HasCol(df.columns, COLUMNS_TO_KEEP[c])
                     THEN df.rows[r][ColIdx(df.columns, COLUMNS_TO_KEEP[c])]
                     ELSE StrCell("")]]]]

RECURSIVE ParseDigits(_, _, _)
ParseDigits(s, i, acc) ==
  IF i > Len(s) THEN acc
  ELSE ParseDigits(s, i + 1, 10 * acc + DigitVal(CharAt(s, i)))

AllDigits(s) == \A i \in 1..Len(s) : IsDigit(CharAt(s, i))

\* Texts that parse as an infinite float.
INF_TEXTS == { "inf", "-inf", "+inf", "Inf", "-Inf", "Infinity", "-Infinity" }

\* An unsigned decimal text, digits with an optional fraction: its integer
\* part, or -1 when it is no number.
UnsignedTrunc(s) ==
  LET dots == {i \in 1..Len(s) : CharAt(s, i) = "."}
      ip   == IF dots = {} THEN s ELSE SubSeq(s, 1, (CHOOSE d \in dots : TRUE) - 1)
      fp   == IF dots = {} THEN "" ELSE SubSeq(s, (CHOOSE d \in dots : TRUE) + 1, Len(s))
  IN IF Cardinality(dots) > 1 \/ Len(ip) = 0 \/ ~AllDigits(ip) \/ ~AllDigits(fp)
     THEN -1
     ELSE ParseDigits(ip, 1, 0)

\* pd.to_numeric(cell, errors='coerce'): the number the cell holds, NaN for
\* a missing cell and for a text that does not parse.  A finite number is
\* given by its value truncated toward zero, which is all that astype(int)
\* keeps of it.
ToNumeric(c) ==
  IF c.t = "int" THEN [kind |-> "num", trunc |-> c.n]
  ELSE IF c.t = "nan" THEN [kind |-> "nan", trunc |-> 0]
  ELSE IF c.s \in INF_TEXTS THEN [kind |-> "inf", trunc |-> 0]
  ELSE LET neg  == Len(c.s) > 0 /\ CharAt(c.s, 1) = "-"
           pos  == Len(c.s) > 0 /\ CharAt(c.s, 1) = "+"
           body == IF neg \/ pos THEN SubSeq(c.s, 2, Len(c.s)) ELSE c.s
           u    == UnsignedTrunc(body)
       IN IF u < 0 THEN [kind |-> "nan", trunc |-> 0]
          ELSE [kind |-> "num", trunc |-> IF neg THEN 0 - u ELSE u]

\* .fillna(0)
FillNa0(x) == IF x.kind = "nan" THEN [kind |-> "num", trunc |-> 0] ELSE x

SalaryIdx == ColIdx(COLUMNS_TO_KEEP, "Salary")

\* df['Salary'] = pd.to_numeric(df['Salary'], errors='coerce').fillna(0).astype(int)
\* astype(int) raises on a value that is not finite.
CoerceSalary(df) ==
  LET num == [r \in 1..Len(df.rows) |-> FillNa0(ToNumeric(df.rows[r][SalaryIdx]))] IN
  IF \E r \in 1..Len(df.rows) : num[r].kind = "inf"
  THEN [raised |-> TRUE,
        exc |-> "Cannot convert non-finite values (NA or inf) to integer",
        df |-> EmptyDF]
  ELSE [raised |-> FALSE, exc |-> "",
        df |-> [df EXCEPT !.rows = [r \in 1..Len(df.rows) |->
                  [df.rows[r] EXCEPT ![SalaryIdx] = IntCell(num[r].trunc)]]]]

STRIP_COLUMNS == { "District", "College", "Category", "Action", "Reason" }

\* for col in [...]: df[col] = df[col].astype(str).str.strip()
CleanStrings(df) ==
  [df EXCEPT !.rows = [r \in 1..Len(df.rows) |->
     [c \in 1..Len(df.columns) |->
        IF df.columns[c] \in STRIP_COLUMNS
        THEN StrCell(Strip(CellStr(df.rows[r][c])))
        ELSE df.rows[r][c]]]]

\* The whole of "Data Cleaning and Processing": the table load_data returns
\* for the table it read, or the exception that leaves it.
Normalize(raw) ==
  LET re == Reindex(RenameColumns(StripColumns(raw))) IN
  IF re.raised THEN re
  ELSE LET sal == CoerceSalary(re.df) IN
       IF sal.raised THEN sal
       ELSE [raised |-> FALSE, exc |-> "", df |-> CleanStrings(sal.df)]

(***************************************************************************)
(* calculate_kpis                                                          *)
(***************************************************************************)
RECURSIVE SumInts(_, _)
SumInts(cells, i) ==
  IF i > Len(cells) THEN 0 ELSE cells[i].n + SumInts(cells, i + 1)

\* df[df[col] == text].shape[0]
CountEqual(cells, text) ==
  Cardinality({r \in 1..Len(cells) : cells[r] = StrCell(text)})

\* df[df[col].str.contains(pat, case=False)].shape[0]
CountContaining(cells, pat) ==
  Cardinality({r \in 1..Len(cells) : ContainsNoCase(CellStr(cells[r]), pat)})

\* NUnique that counts the values instead of the distinct ones.
NUniqueCountsAll(cells) == Cardinality({q \in 1..Len(cells) : cells[q].t # "nan"})

\* Series.nunique(): the distinct values that are not missing.
NUnique(cells) ==
  Cardinality({CellStr(cells[r]) : r \in {q \in 1..Len(cells) : cells[q].t # "nan"}})

KPI_KEYS ==
  { "Total Actions", "Unique Colleges", "Total Salary Deducted",
    "Employee Issues", "Warnings", "Explanations", "Inquiries" }

\* The dictionary calculate_kpis returns: a function of its keys, with no
\* key at all for an empty table.
calculate_kpis(df) ==
  IF IsEmpty(df) THEN [k \in {} |-> 0]
  ELSE [k \in KPI_KEYS |->
    CASE k = "Total Actions"         -> Len(df.rows)
      [] k = "Unique Colleges"       -> NUnique(Col(df, "College"))
      [] k = "Total Salary Deducted" -> SumInts(Col(df, "Salary"), 1)
      [] k = "Employee Issues"       -> CountEqual(Col(df, "Category"), "Employee")
      [] k = "Warnings"              -> CountContaining(Col(df, "Action"), "Warning")
      [] k = "Explanations"          -> CountContaining(Col(df, "Action"), "Explanation")
      [] OTHER                       -> CountContaining(Col(df, "Action"), "Inquiry")]

\* kpis.get(key, 0)
KpiGet(kpis, key) == IF key \in DOMAIN kpis THEN kpis[key] ELSE 0

(***************************************************************************)
(* create_charts: the top reasons.                                         *)
(***************************************************************************)
\* The labels a column holds and how often each occurs; a missing value is
\* not counted.
Groups(cells) ==
  { [label |-> CellStr(cells[r]),
     count |-> Cardinality({q \in 1..Len(cells) : cells[q] = cells[r]})] :
    r \in {q \in 1..Len(cells) : cells[q].t # "nan"} }

\* The row at which a label first occurs.
FirstRow(cells, label) ==
  CHOOSE r \in 1..Len(cells) :
    /\ CellStr(cells[r]) = label
    /\ \A q \in 1..(r - 1) : CellStr(cells[q]) # label

\* Every arrangement of the groups with the counts descending.
RECURSIVE DescendingOrders(_)
DescendingOrders(gs) ==
  IF gs = {} THEN { << >> }
  ELSE UNION { { << g >> \o o : o \in DescendingOrders(gs \ {g}) } :
               g \in {h \in gs : \A k \in gs : k.count <= h.count} }

\* Series.value_counts(): the groups sorted by count, largest first.  The
\* sort is the library's default quicksort, which promises no order among
\* equal counts: every descending arrangement is a possible result.
ValueCounts(cells) == DescendingOrders(Groups(cells))

\* The entry of a sequence of groups that nlargest takes next: among those
\* not yet taken, the largest count, the earliest one on a tie (keep='first').
NextLargest(vc, taken) ==
  CHOOSE i \in (1..Len(vc)) \ taken :
    \A j \in (1..Len(vc)) \ taken :
      vc[j].count < vc[i].count \/ (vc[j].count = vc[i].count /\ i <= j)

RECURSIVE NLargestFrom(_, _, _)
NLargestFrom(vc, n, taken) ==
  IF n = 0 \/ Cardinality(taken) = Len(vc) THEN << >>
  ELSE LET i == NextLargest(vc, taken) IN
       << vc[i] >> \o NLargestFrom(vc, n - 1, taken \cup {i})

\* Series.nlargest(n)
NLargest(vc, n) == NLargestFrom(vc, n, {})

TOP_N == 5

\* TopReasons that takes the first five labels as they appear, unsorted.
TopReasonsByAppearance(df) ==
  LET cells == Col(df, "Reason")
      gs    == Groups(cells)
      at(k) == CHOOSE g \in gs :
                 Cardinality({h \in gs : FirstRow(cells, h.label)
                                           < FirstRow(cells, g.label)}) = k - 1
  IN { [k \in 1..(IF Cardinality(gs) < TOP_N THEN Cardinality(gs) ELSE TOP_N)
          |-> at(k)] }

\* df['Reason'].value_counts().nlargest(5): the results it can have.
TopReasons(df) ==
  { NLargest(vc, TOP_N) : vc \in ValueCounts(Col(df, "Reason")) }

(***************************************************************************)
(* main: the search filter.                                                *)
(***************************************************************************)
\* RowMatches without .str.lower(): the fields are searched as they are.
RowMatchesCaseSensitive(row, search_lower) ==
  \E c \in 1..Len(row) : RegexSearch(search_lower, CellStr(row[c]))

\* row.astype(str).str.lower().str.contains(search_lower).any(): some field
\* of the row, as a lower-cased string, is matched by the term read as a
\* regular expression.
RowMatches(row, search_lower) ==
  \E c \in 1..Len(row) : RegexSearch(search_lower, Lower(CellStr(row[c])))

\* The rows the term matches, in their order.
RECURSIVE MatchingRows(_, _, _)
MatchingRows(rows, i, search_lower) ==
  IF i > Len(rows) THEN << >>
  ELSE (IF RowMatches(rows[i], search_lower) THEN << rows[i] >> ELSE << >>)
       \o MatchingRows(rows, i + 1, search_lower)

\* if search_term: ... else: filtered_df = df.  A term that is no regular
\* expression raises re.error.
FilterRecords(df, search_term) ==
  IF search_term = "" THEN [raised |-> FALSE, exc |-> "", df |-> df]
  ELSE LET search_lower == Lower(search_term) IN
    IF RegexError(search_lower)
    THEN [raised |-> TRUE, exc |-> "re.error", df |-> EmptyDF]
    ELSE [raised |-> FALSE, exc |-> "",
          df |-> [df EXCEPT !.rows =
                    MatchingRows(df.rows, 1, search_lower)]]

(***************************************************************************)
(* load_data and its cache.                                                *)
(***************************************************************************)
\* The locators of the model: none, and two remote ones.
RemoteLocators == { "u1", "u2" }

Locators == { "" } \cup RemoteLocators

\* What a remote locator serves when it answers.
CSV_GOOD ==
  << "District, College ,College Gender,Action,Name,Salary Deducted,Reason",
     "Kohat ,\"61. Govt Postgraduate College, Kohat\",Male,Final Warning,Sadiq Noor,500,Proxy Attendance",
     "Bannu,\"09. Govt Degree College, Kakki, Bannu\",Male,Inquiry,,abc,Proxy Attendance",
     "Bannu,\"09. Govt Degree College, Kakki, Bannu\",Male,Inquiry,Farid Zia,0,Late" >>

\* A salary cell that is not finite.
CSV_INF ==
  << "District,Salary Deducted,Reason",
     "Bannu,inf,Late" >>

\* A body with no line in it.
CSV_NONE == << >>

Unreachable == [reachable |-> FALSE, lines |-> << >>]

Serving(lines) == [reachable |-> TRUE, lines |-> lines]

SourceStates == { Unreachable, Serving(CSV_NONE), Serving(CSV_GOOD), Serving(CSV_INF) }

\* What each remote locator can yield: "u1" is a source that fails and
\* recovers, "u2" one that always serves the same table.
SourcesOf(u) == IF u = "u1" THEN SourceStates ELSE { Serving(CSV_GOOD) }

INFO_SAMPLE ==
  "Showing sample data. Enter your Google Sheet 'Publish to Web' CSV link above to load live data."

ERROR_PREFIX ==
  "Error loading data from URL. Please check the link format. Details: "

\* pd.read_csv(url): the fetch fails, or what it fetched is parsed.
FetchCsv(src) ==
  IF ~src.reachable
  THEN [raised |-> TRUE, exc |-> "<urlopen error>", df |-> EmptyDF]
  ELSE ReadCsv(src.lines)

\* ErrorMessage without the text of the exception.
ErrorMessageWithoutDetail(exc) == [level |-> "error", text |-> ERROR_PREFIX]

\* The st.error call of the except branch.
ErrorMessage(exc) == [level |-> "error", text |-> ERROR_PREFIX \o exc]

\* The body of load_data, run on a locator whose source is src: the table it
\* returns with the messages it shows, or the exception that leaves it.
load_data(url, src) ==
  IF url = ""
  THEN LET rd == ReadCsv(MOCK_CSV_DATA) IN
       IF rd.raised
       THEN [raised |-> TRUE, exc |-> rd.exc, df |-> EmptyDF, msgs |-> << >>]
       ELSE LET nz == Normalize(rd.df) IN
            [raised |-> nz.raised, exc |-> nz.exc, df |-> nz.df,
             msgs |-> << [level |-> "info", text |-> INFO_SAMPLE] >>]
  ELSE LET rd == FetchCsv(src) IN
       IF rd.raised
       THEN [raised |-> FALSE, exc |-> "", df |-> EmptyDF,
             msgs |-> << ErrorMessage(rd.exc) >>]
       ELSE LET nz == Normalize(rd.df) IN
            [raised |-> nz.raised, exc |-> nz.exc, df |-> nz.df, msgs |-> << >>]

\* load_data tabulated over the locators and source states of the model.
LoadDataOf == [url \in Locators, src \in SourceStates |-> load_data(url, src)]

\* @st.cache_data(ttl=3600)
TTL == 3600

NoValue == [raised |-> FALSE, exc |-> "", df |-> EmptyDF, msgs |-> << >>]

NoEntry == [present |-> FALSE, value |-> NoValue, stored |-> 0]

\* CacheFresh with the bound off by one: an entry as old as the TTL still
\* answers.
CacheFreshInclusive(entry, t) == entry.present /\ t - entry.stored <= TTL

\* An entry answers a call while it is younger than the TTL.
CacheFresh(entry, t) == entry.present /\ t - entry.stored < TTL

\* CacheStore that keeps only a load that brought rows.
CacheStoreLoadedOnly(ret, t) ==
  IF ret.raised \/ IsEmpty(ret.df) THEN NoEntry
  ELSE [present |-> TRUE, value |-> ret, stored |-> t]

\* The entry a finished run of the body leaves: its value stamped with the
\* time, and none when the body raised.
CacheStore(ret, t) ==
  IF ret.raised THEN NoEntry ELSE [present |-> TRUE, value |-> ret, stored |-> t]

\* The key under which the cache files a call: the argument.
CacheKey(url) == url

\* load_data(url) as main calls it, through the cache: a fresh entry of the
\* key is returned and its messages shown again, otherwise the body runs and
\* its result is stored.
CachedLoadData(url) ==
  LET entry == cache[CacheKey(url)] IN
  IF CacheFresh(entry, now)
  THEN [hit |-> TRUE, fetched |-> FALSE, ret |-> entry.value, entry |-> entry]
  ELSE LET ret == LoadDataOf[url, IF url = "" THEN Unreachable ELSE source[url]] IN
       [hit |-> FALSE, fetched |-> url # "", ret |-> ret,
        entry |-> CacheStore(ret, now)]

(***************************************************************************)
(* main                                                                    *)
(***************************************************************************)
NoKpis == [k \in {} |-> 0]

NoPage ==
  [outcome |-> "none", url |-> "", term |-> "", msgs |-> << >>,
   kpis |-> NoKpis, top |-> << >>, table |-> EmptyDF]

\* create_charts(df): nothing for an empty table, else the top reasons.
create_charts(df) == IF IsEmpty(df) THEN { << >> } ELSE TopReasons(df)

\* The warning under the table.
TableWarning(filtered, search_term) ==
  IF IsEmpty(filtered) /\ search_term # ""
  THEN << [level |-> "warning", text |-> "No records found matching"] >>
  ELSE IF IsEmpty(filtered)
  THEN << [level |-> "warning", text |-> "The data frame is empty."] >>
  ELSE << >>

\* The search terms typed in the model of the whole page.
PageTerms == { "", "proxy" }

\* The tables load_data can return in the model, and calculate_kpis,
\* create_charts and the filter tabulated over them.
LoadedTables == { LoadDataOf[a].df : a \in Locators \X SourceStates }

KpisOf == [df \in LoadedTables |-> calculate_kpis(df)]

ChartsOf == [df \in LoadedTables |-> create_charts(df)]

FilteredOf == [df \in LoadedTables, t \in PageTerms |-> FilterRecords(df, t)]

\* What main does with the table load_data returned: it stops on an empty
\* table of a given locator, and otherwise shows the indicators, the charts
\* and the filtered table.
RunPage(sheet_url, search_term, ret, top, flt, kpis) ==
  IF ret.raised
  THEN [NoPage EXCEPT !.outcome = "crashed", !.url = sheet_url]
  ELSE IF IsEmpty(ret.df) /\ sheet_url # ""
  THEN [NoPage EXCEPT !.outcome = "stopped", !.url = sheet_url, !.msgs = ret.msgs]
  ELSE IF flt.raised
  THEN [outcome |-> "crashed", url |-> sheet_url, term |-> search_term,
        msgs |-> ret.msgs, kpis |-> kpis, top |-> top, table |-> EmptyDF]
  ELSE [outcome |-> "rendered", url |-> sheet_url, term |-> search_term,
        msgs |-> ret.msgs \o TableWarning(flt.df, search_term),
        kpis |-> kpis, top |-> top, table |-> flt.df]

\* The call of load_data and what follows it.
MainWith(sheet_url, search_term, entry, call) ==
  /\ cache' = [cache EXCEPT ![CacheKey(sheet_url)] = call.entry]
  /\ lastLoad' = [called |-> TRUE, url |-> sheet_url, hit |-> call.hit,
                  fetched |-> call.fetched,
                  found |-> IF ~entry.present THEN "none"
                            ELSE IF now - entry.stored < TTL THEN "young"
                            ELSE "old",
                  raised |-> call.ret.raised]
  /\ \E top \in ChartsOf[call.ret.df] :
       page' = RunPage(sheet_url, search_term, call.ret, top,
                       FilteredOf[call.ret.df, search_term], KpisOf[call.ret.df])
  /\ UNCHANGED << now, ticks, source, normArg, normRet, filterArg, filterRet,
                  topArg, topRet >>

\* One run of the script with the two text inputs holding sheet_url and
\* search_term.
main(sheet_url, search_term) ==
  MainWith(sheet_url, search_term, cache[CacheKey(sheet_url)],
           CachedLoadData(sheet_url))

\* The clock advances.
TickSteps == { 1, TTL - 1 }

MaxTicks == 2

Tick(d) ==
  /\ ticks < MaxTicks
  /\ now' = now + d
  /\ ticks' = ticks + 1
  /\ UNCHANGED << source, cache, lastLoad, page, normArg, normRet, filterArg,
                  filterRet, topArg, topRet >>

\* A remote source changes what it yields.
SetSource(u, s) ==
  /\ source[u] # s
  /\ source' = [source EXCEPT ![u] = s]
  /\ UNCHANGED << now, ticks, cache, lastLoad, page, normArg, normRet,
                  filterArg, filterRet, topArg, topRet >>

NoLoad ==
  [called |-> FALSE, url |-> "", hit |-> FALSE, fetched |-> FALSE,
   found |-> "none", raised |-> FALSE]

NoResult == [done |-> FALSE, raised |-> FALSE, exc |-> "", df |-> EmptyDF]

NoTop == [done |-> FALSE, top |-> << >>]

\* The variables of the functions taken on their own, at rest.
PartsIdle ==
  /\ normArg = EmptyDF
  /\ normRet = NoResult
  /\ filterArg = [df |-> EmptyDF, term |-> ""]
  /\ filterRet = NoResult
  /\ topArg = EmptyDF
  /\ topRet = NoTop

\* The page at rest.
AppIdle ==
  /\ now = 0
  /\ ticks = 0
  /\ source = [u \in RemoteLocators |->
                 IF Unreachable \in SourcesOf(u) THEN Unreachable
                 ELSE Serving(CSV_GOOD)]
  /\ cache = [u \in Locators |-> NoEntry]
  /\ lastLoad = NoLoad
  /\ page = NoPage

Init == AppIdle /\ PartsIdle

Next ==
  \/ \E u \in Locators, t \in PageTerms : main(u, t)
  \/ \E d \in TickSteps : Tick(d)
  \/ \E u \in RemoteLocators : \E s \in SourcesOf(u) : SetSource(u, s)

Spec == Init /\ [][Next]_vars

(***************************************************************************)
(* The normalization step taken on its own, over small tables.             *)
(***************************************************************************)
MaxRows == 2

\* Header rows as read_csv hands them over: names with stray blanks, names
\* the rename maps, canonical columns missing, a name that occurs twice
\* once renamed.
NormHeaders ==
  { << "Salary" >>, << " Salary Deducted " >>, << "Other" >>,
    << "Name", "Reason " >>, << "District", "Salary Deducted" >>,
    << "College Gender", " Action" >>, << "Salary", "Salary Deducted" >> }

SalaryTexts == { "", "abc", "12000", "-500", "12.7", "inf" }

NameTexts == { "", " x ", "Kohat" }

\* The field texts a column of the inputs holds: salary texts in the
\* column that becomes Salary, plain words elsewhere.
TextsFor(h) == IF RenameOne(Strip(h)) = "Salary" THEN SalaryTexts ELSE NameTexts

\* The rows of a table with the given header.
RawRows(header) ==
  { [c \in 1..Len(header) |-> ParseCell(f[c])] :
    f \in { g \in [1..Len(header) -> SalaryTexts \cup NameTexts] :
            \A c \in 1..Len(header) : g[c] \in TextsFor(header[c]) } }

\* The tables with up to n rows.
RawTables(headers, n) ==
  UNION { { [columns |-> h, rows |-> rs] :
            rs \in UNION { [1..k -> RawRows(h)] : k \in 0..n } } :
          h \in headers }

\* The inputs of the step: the small tables and the sample data as read.
NormInputs(n) == RawTables(NormHeaders, n) \cup { ReadCsv(MOCK_CSV_DATA).df }

InitNorm ==
  /\ AppIdle
  /\ normArg \in NormInputs(MaxRows)
  /\ normRet = NoResult
  /\ filterArg = [df |-> EmptyDF, term |-> ""]
  /\ filterRet = NoResult
  /\ topArg = EmptyDF
  /\ topRet = NoTop

\* The result of a step, marked as taken.
Done(r) == [done |-> TRUE, raised |-> r.raised, exc |-> r.exc, df |-> r.df]

NormalizeStep ==
  /\ ~normRet.done
  /\ normRet' = Done(Normalize(normArg))
  /\ UNCHANGED << now, ticks, source, cache, lastLoad, page, normArg,
                  filterArg, filterRet, topArg, topRet >>

NextNorm == NormalizeStep

SpecNorm == InitNorm /\ [][NextNorm]_vars

(***************************************************************************)
(* The search filter taken on its own, over small normalized tables.       *)
(***************************************************************************)
FilterHeaders == { << "Name", "Reason" >> }

FilterTexts == { "", "ab", "cd", "X.y" }

FilterRawRows(header) ==
  { [c \in 1..Len(header) |-> ParseCell(f[c])] :
    f \in [1..Len(header) -> FilterTexts] }

\* The tables with up to n rows, normalized.
FilterTables(n) ==
  UNION { { Normalize([columns |-> h, rows |-> rs]).df :
            rs \in UNION { [1..k -> FilterRawRows(h)] : k \in 0..n } } :
          h \in FilterHeaders }

SearchTerms == { "", "a", "bc", "B", "Y", ".", "(", "0", "nan" }

InitFilter ==
  /\ AppIdle
  /\ normArg = EmptyDF
  /\ normRet = NoResult
  /\ filterArg \in { [df |-> df, term |-> t] :
                     df \in FilterTables(MaxRows), t \in SearchTerms }
  /\ filterRet = NoResult
  /\ topArg = EmptyDF
  /\ topRet = NoTop

FilterStep ==
  /\ ~filterRet.done
  /\ filterRet' = Done(FilterRecords(filterArg.df, filterArg.term))
  /\ UNCHANGED << now, ticks, source, cache, lastLoad, page, normArg, normRet,
                  filterArg, topArg, topRet >>

NextFilter == FilterStep

SpecFilter == InitFilter /\ [][NextFilter]_vars

(***************************************************************************)
(* The top-reasons aggregation taken on its own.                           *)
(***************************************************************************)
MaxRecords == 7

ReasonLabels == << "Late", "Proxy", "Absent", "Fight", "Fraud", "Other" >>

MaxOf(s) == IF Len(s) = 0 THEN 0 ELSE CHOOSE m \in {s[i] : i \in 1..Len(s)} :
                                        \A i \in 1..Len(s) : s[i] <= m

\* The sequences of n label numbers in which the labels first occur in
\* their order: every pattern of repetition, once.
RECURSIVE LabelPatterns(_)
LabelPatterns(n) ==
  IF n = 0 THEN { << >> }
  ELSE UNION { { Append(s, k) :
                 k \in { j \in 1..Len(ReasonLabels) : j <= MaxOf(s) + 1 } } :
               s \in LabelPatterns(n - 1) }

\* A normalized table whose Reason column holds the given labels.
TableOfReasons(s) ==
  Normalize([columns |-> << "Reason" >>,
             rows |-> [i \in 1..Len(s) |-> << StrCell(ReasonLabels[s[i]]) >>]]).df

\* The tables of up to n records.
TopInputs(n) ==
  { TableOfReasons(s) : s \in UNION { LabelPatterns(k) : k \in 1..n } }

InitTop ==
  /\ AppIdle
  /\ normArg = EmptyDF
  /\ normRet = NoResult
  /\ filterArg = [df |-> EmptyDF, term |-> ""]
  /\ filterRet = NoResult
  /\ topArg \in TopInputs(MaxRecords)
  /\ topRet = NoTop

TopStep ==
  /\ ~topRet.done
  /\ \E top \in create_charts(topArg) : topRet' = [done |-> TRUE, top |-> top]
  /\ UNCHANGED << now, ticks, source, cache, lastLoad, page, normArg, normRet,
                  filterArg, filterRet, topArg >>

NextTop == TopStep

SpecTop == InitTop /\ [][NextTop]_vars

(***************************************************************************)
(* Properties.                                                             *)
(***************************************************************************)
\* s holds t as a literal substring.
HasSubstring(s, t) ==
  \E i \in 1..(Len(s) - Len(t) + 1) : SubSeq(s, i, i + Len(t) - 1) = t

EndsWith(s, t) == Len(t) <= Len(s) /\ SubSeq(s, Len(s) - Len(t) + 1, Len(s)) = t

\* pd.read_csv(url) tabulated over the source states of the model.
FetchOf == [src \in SourceStates |-> FetchCsv(src)]

\* The age of the entry the cache holds for a locator.
AgeOf(u) == now - cache[u].stored

\* A step of main that calls load_data with locator u.
MainCalls(u) == \E t \in PageTerms : main(u, t)

\* C1: the load cache is keyed by the locator and bounded by the TTL of 3600
\* seconds.  In every call of load_data: it is answered from the cache, and
\* a remote locator is answered without a fetch, only when the cache holds
\* an entry for that very locator that is younger than 3600 seconds; when
\* the cache holds no entry for the locator (whatever it holds for others)
\* the body runs afresh; and when the entry of the locator has reached the
\* TTL the body runs again and the locator is fetched again.
C1_CacheKeyedAndTtlBounded ==
  [][\A u \in Locators : MainCalls(u) =>
       /\ lastLoad'.hit => (cache[u].present /\ AgeOf(u) < 3600)
       /\ (u # "" /\ ~lastLoad'.fetched) => (cache[u].present /\ AgeOf(u) < 3600)
       /\ ~cache[u].present => (~lastLoad'.hit /\ (u # "" => lastLoad'.fetched))
       /\ (cache[u].present /\ AgeOf(u) >= 3600) =>
            (~lastLoad'.hit /\ (u # "" => lastLoad'.fetched))]_vars

\* C1, reached: a call found the entry of its locator expired and fetched
\* again, while the entry of another locator was still in the cache.
C1_Witness ==
  /\ lastLoad.called /\ lastLoad.url = "u1"
  /\ lastLoad.found = "old" /\ lastLoad.fetched
  /\ cache["u2"].present

\* The entry of a locator records a failed load: an empty table with the
\* error message.
FailedEntry(e) ==
  /\ e.present
  /\ e.value.df = EmptyDF
  /\ \E i \in 1..Len(e.value.msgs) : e.value.msgs[i].level = "error"

\* C2: when a locator is given and the fetch or the parse fails, load_data
\* shows an error message that includes the detail of the failure and
\* returns an empty table; nothing is raised, and main stops without
\* crashing.
C2_LoadFailureIsRecoverable ==
  [][\A u \in RemoteLocators :
       (MainCalls(u) /\ ~lastLoad'.hit /\ FetchOf[source[u]].raised) =>
         /\ ~lastLoad'.raised
         /\ cache'[u].value.df = EmptyDF
         /\ page'.outcome = "stopped"
         /\ Len(page'.msgs) = 1
         /\ page'.msgs[1].level = "error"
         /\ EndsWith(page'.msgs[1].text, FetchOf[source[u]].exc)
         /\ Len(FetchOf[source[u]].exc) > 0]_vars

\* C2, reached: a fetched body that did not parse left main stopped with the
\* parser's message shown.
C2_Witness ==
  /\ lastLoad.called /\ lastLoad.fetched /\ ~lastLoad.raised
  /\ page.outcome = "stopped"
  /\ Len(page.msgs) = 1
  /\ EndsWith(page.msgs[1].text, "No columns to parse from file")

\* C10: a failed load is kept like a successful one.  A load of a remote
\* locator that fails leaves an entry with the empty table; while that entry
\* is younger than 3600 seconds every call with the locator is answered
\* with the empty table from the cache, without a fetch, whatever the source
\* would yield by now; once the entry has reached the TTL the fetch is
\* made again.
C10_FailedLoadIsMemoized ==
  [][\A u \in RemoteLocators : MainCalls(u) =>
       /\ (~lastLoad'.hit /\ FetchOf[source[u]].raised) =>
            (FailedEntry(cache'[u]) /\ cache'[u].stored = now)
       /\ (FailedEntry(cache[u]) /\ AgeOf(u) < 3600) =>
            /\ lastLoad'.hit /\ ~lastLoad'.fetched
            /\ cache'[u] = cache[u]
            /\ page'.outcome = "stopped"
            /\ page'.msgs = cache[u].value.msgs
       /\ (FailedEntry(cache[u]) /\ AgeOf(u) >= 3600) => lastLoad'.fetched]_vars

\* C10, reached: a call was answered with the remembered failure although
\* the source serves a good table by now.
C10_Witness ==
  /\ lastLoad.called /\ lastLoad.url = "u1" /\ lastLoad.hit
  /\ FailedEntry(cache["u1"])
  /\ AgeOf("u1") > 0
  /\ source["u1"] = Serving(CSV_GOOD)
  /\ page.outcome = "stopped"

\* The table load_data holds for the built-in sample data.
FallbackTable == cache[""].value.df

\* The page shows the built-in sample data.
ShowsFallback == page.outcome = "rendered" /\ page.url = ""

\* How many rows have exactly this text in a column.
RowsWith(df, column, text) ==
  Cardinality({r \in 1..Len(df.rows) : Col(df, column)[r] = StrCell(text)})

\* C6, as amended: calculate_kpis on the normalized sample data gives Total
\* Actions = 15, Unique Colleges = 7 (the number of distinct College
\* strings) and Warnings at least the number of rows whose Action is exactly
\* "Warning".
C6_FallbackKpis ==
  ShowsFallback =>
    /\ KpiGet(page.kpis, "Total Actions") = 15
    /\ KpiGet(page.kpis, "Unique Colleges") = 7
    /\ KpiGet(page.kpis, "Unique Colleges") =
         Cardinality({Col(FallbackTable, "College")[r] : r \in 1..Len(FallbackTable.rows)})
    /\ KpiGet(page.kpis, "Warnings") >= RowsWith(FallbackTable, "Action", "Warning")

\* C6 as stated: Total Actions = 15, Unique Colleges = 9, and Warnings at
\* least the number of rows whose Action is exactly "Warning".
C6_AsStated ==
  ShowsFallback =>
    /\ KpiGet(page.kpis, "Total Actions") = 15
    /\ KpiGet(page.kpis, "Unique Colleges") = 9
    /\ KpiGet(page.kpis, "Warnings") >= RowsWith(FallbackTable, "Action", "Warning")

\* C6, reached: the indicators of the sample data are on the page, and the
\* data has rows whose Action is exactly "Warning".
C6_Witness ==
  /\ ShowsFallback
  /\ DOMAIN page.kpis = KPI_KEYS
  /\ RowsWith(FallbackTable, "Action", "Warning") > 0

\* The rows of a table whose Reason holds the term, case ignored, in order.
RowsWithReason(df, term) ==
  SelectSeq(df.rows,
            LAMBDA row : HasSubstring(Lower(CellStr(row[ColIdx(df.columns, "Reason")])),
                                      Lower(term)))

\* The search for "proxy" on the sample data is on the page.
ShowsProxySearch == ShowsFallback /\ page.term = "proxy"

\* C8, as amended: on the normalized sample data the search for "proxy"
\* returns exactly the records whose Reason holds it, case ignored, and
\* these are the 6 rows with Reason "Proxy Attendance".
C8_ProxySearch ==
  ShowsProxySearch =>
    /\ page.table.rows = RowsWithReason(FallbackTable, "proxy")
    /\ Len(page.table.rows) = 6
    /\ Len(page.table.rows) = RowsWith(FallbackTable, "Reason", "Proxy Attendance")
    /\ \A r \in 1..Len(page.table.rows) :
         Col(page.table, "Reason")[r] = StrCell("Proxy Attendance")

\* C8 as stated: the rows returned are those whose Reason holds "proxy", and
\* they are the 5 rows with Reason "Proxy Attendance".
C8_AsStated ==
  ShowsProxySearch =>
    /\ page.table.rows = RowsWithReason(FallbackTable, "proxy")
    /\ Len(page.table.rows) = 5
    /\ \A r \in 1..Len(page.table.rows) :
         Col(page.table, "Reason")[r] = StrCell("Proxy Attendance")

\* C8, reached: the search for "proxy" on the sample data has shown rows.
C8_Witness == ShowsProxySearch /\ Len(page.table.rows) > 0

\* The normalization step has been taken and has returned a table.
Normalized == normRet.done /\ ~normRet.raised

\* The cell of row r in the canonical column named.
OutCell(r, column) == normRet.df.rows[r][ColIdx(COLUMNS_TO_KEEP, column)]

\* C3: for any input table, with no row or with canonical columns missing,
\* the normalization step raises nothing, and its output has exactly the 10
\* canonical columns in their order and as many rows as the input.
C3_NormalizedShape ==
  normRet.done =>
    /\ ~normRet.raised
    /\ normRet.df.columns = COLUMNS_TO_KEEP
    /\ Len(normRet.df.rows) = Len(normArg.rows)

\* C4: every record load_data produces has an integer Salary that is not
\* negative.
C4_SalaryNotNegative ==
  Normalized =>
    \A r \in 1..Len(normRet.df.rows) :
      OutCell(r, "Salary").t = "int" /\ OutCell(r, "Salary").n >= 0

STRING_COLUMNS ==
  { "District", "College", "Gender", "Type", "Category", "Action", "Name",
    "Designation", "Reason" }

\* The input table has the column (under the name the cleaning gives it)
\* and a value in row r of it.
InputHasValue(r, column) ==
  \E c \in 1..Len(normArg.columns) :
    /\ RenameOne(Strip(normArg.columns[c])) = column
    /\ normArg.rows[r][c].t # "nan"

\* C5: in every record of the normalized table no field is missing, and each
\* of the nine string fields whose value is absent from the input (a missing
\* column or an empty cell) is the empty string.
C5_NoMissingField ==
  Normalized =>
    \A r \in 1..Len(normRet.df.rows) :
      /\ \A c \in 1..Len(COLUMNS_TO_KEEP) : normRet.df.rows[r][c].t # "nan"
      /\ \A column \in STRING_COLUMNS :
           ~InputHasValue(r, column) => OutCell(r, column) = StrCell("")

\* Some field of the row, as a lower-cased string, holds the lower-cased
\* term as a literal substring.
FieldHoldsTerm(row, term) ==
  \E c \in 1..Len(row) : HasSubstring(Lower(CellStr(row[c])), Lower(term))

\* C7: the filter returns all records, in their order, when the term is
\* empty; otherwise exactly the records of which some single field, as a
\* lower-cased string, holds the lower-cased term as a literal substring,
\* in their order; and it raises nothing.
C7_FilterIsLiteralPerField ==
  filterRet.done =>
    /\ ~filterRet.raised
    /\ filterRet.df.columns = filterArg.df.columns
    /\ filterRet.df.rows =
         IF filterArg.term = "" THEN filterArg.df.rows
         ELSE SelectSeq(filterArg.df.rows,
                        LAMBDA row : FieldHoldsTerm(row, filterArg.term))

\* The Reason labels of the table given to the aggregation.
ReasonsOf == { CellStr(Col(topArg, "Reason")[r]) : r \in 1..Len(topArg.rows) }

\* The labels the aggregation returned.
ReturnedReasons == { topRet.top[i].label : i \in 1..Len(topRet.top) }

\* C9, as amended: for any non-empty record set the top-reasons aggregation
\* groups by the exact Reason string and returns at most 5 groups, each with
\* the number of records that have that Reason, and the count of every
\* group returned is at least the count of every group not returned.  (No
\* order among equal counts is promised.)
C9_TopReasons ==
  topRet.done =>
    /\ Len(topRet.top) <= 5
    /\ Cardinality(ReturnedReasons) = Len(topRet.top)
    /\ \A i \in 1..Len(topRet.top) :
         /\ topRet.top[i].label \in ReasonsOf
         /\ topRet.top[i].count = RowsWith(topArg, "Reason", topRet.top[i].label)
         /\ \A l \in ReasonsOf \ ReturnedReasons :
              topRet.top[i].count >= RowsWith(topArg, "Reason", l)

\* C9 as stated: the same, and a group returned that has the same count as
\* a group not returned is the one whose label appears first.
C9_AsStated ==
  topRet.done =>
    /\ C9_TopReasons
    /\ \A i \in 1..Len(topRet.top) : \A l \in ReasonsOf \ ReturnedReasons :
         topRet.top[i].count = RowsWith(topArg, "Reason", l) =>
           FirstRow(Col(topArg, "Reason"), topRet.top[i].label)
             < FirstRow(Col(topArg, "Reason"), l)

\* C9, reached: more than five reasons, five of them returned, and one left
\* out that has the same count as one returned.
C9_Witness ==
  /\ topRet.done
  /\ Cardinality(ReasonsOf) > 5
  /\ Len(topRet.top) = 5
  /\ \E l \in ReasonsOf \ ReturnedReasons :
       RowsWith(topArg, "Reason", l) = topRet.top[5].count
  /\ topRet.top[1].count > topRet.top[5].count

====
